---- MODULE Spec2Model ----
(***************************************************************************)
(* A model of home.py, the sustainability dashboard: the two tables it     *)
(* loads, merge_data (split / explode / dropna / astype / left merge),     *)
(* the session state and sidebar widgets, the row filter, the empty-goal   *)
(* guard, the nine tab transforms and the CSV export.                      *)
(*                                                                         *)
(* A data frame is a record [columns |-> sequence of column names,         *)
(* rows |-> sequence of rows], a row being a function from column name to  *)
(* cell.  Text cells of the input files are sequences of characters, so    *)
(* that splitting and integer parsing are computed, not assumed.           *)
(***************************************************************************)
EXTENDS Integers, Sequences, FiniteSets, TLC

\* ------------------------------------------------------------------ bounds
NumArticles == 2     \* keyword rows, article numbers 1..NumArticles
NumYears == 2        \* distinct publication years
NumFaculty == 2      \* faculty rows at most
MaxTokens == 2       \* tokens in one faculty article-number cell at most
MaxCount == 2        \* largest keyword-match count of one goal column
NumDataGoals == 2    \* goal columns that may hold a non-zero count
NumPickGoals == 2    \* goal labels the multiselect toggles one by one
FirstYear == 2020    \* earliest publication year of the generated tables

\* ------------------------------------------------------- generic helpers
Range(f) == {f[i] : i \in DOMAIN f}

RECURSIVE SumSeq(_)
SumSeq(s) == IF s = <<>> THEN 0 ELSE Head(s) + SumSeq(Tail(s))

RECURSIVE Flatten(_)
Flatten(ss) == IF ss = <<>> THEN <<>> ELSE Head(ss) \o Flatten(Tail(ss))

\* s sorted by ascending rank (rank[i] an integer for s[i]); elements of
\* equal rank keep their order.
sort_by_rank(s, rank) ==
    LET pos == [i \in DOMAIN s |->
                   1 + Cardinality({j \in DOMAIN s :
                        rank[j] < rank[i] \/ (rank[j] = rank[i] /\ j < i)})]
    IN [p \in DOMAIN s |-> s[CHOOSE i \in DOMAIN s : pos[i] = p]]

RECURSIVE GCD(_, _)
GCD(a, b) == IF b = 0 THEN a ELSE GCD(b, a % b)

\* The distinct values of a sequence, in order of first appearance
\* (pandas' Series.unique()).
unique(s) ==
    LET first == {i \in DOMAIN s : \A j \in 1..(i - 1) : s[j] # s[i]}
        RECURSIVE Build(_)
        Build(i) == IF i > Len(s) THEN <<>>
                    ELSE (IF i \in first THEN <<s[i]>> ELSE <<>>) \o Build(i + 1)
    IN Build(1)

\* The missing value of a cell.  No text cell equals it: a text cell is a
\* sequence of single characters.
NaN == <<"NaN">>

isna(v) == v = NaN

\* -------------------------------------------------------------- strings
Digits == <<"0", "1", "2", "3", "4", "5", "6", "7", "8", "9">>

DigitValue(c) == (CHOOSE i \in DOMAIN Digits : Digits[i] = c) - 1

IsDigit(c) == c \in Range(Digits)

\* str(n) for a natural number: its decimal digits.
RECURSIVE str(_)
str(n) == IF n < 10 THEN <<Digits[n + 1]>>
          ELSE str(n \div 10) \o <<Digits[(n % 10) + 1]>>

\* sep.join(parts)
RECURSIVE join(_, _)
join(parts, sep) ==
    IF parts = <<>> THEN <<>>
    ELSE IF Len(parts) = 1 THEN Head(parts)
    ELSE Head(parts) \o sep \o join(Tail(parts), sep)

\* s.split(sep): cut s at every occurrence of sep, leftmost first.
RECURSIVE str_split(_, _)
str_split(s, sep) ==
    LET hits == {i \in 1..(Len(s) - Len(sep) + 1) :
                     SubSeq(s, i, i + Len(sep) - 1) = sep}
    IN IF hits = {} THEN <<s>>
       ELSE LET i == CHOOSE h \in hits : \A k \in hits : h <= k
            IN <<SubSeq(s, 1, i - 1)>>
                   \o str_split(SubSeq(s, i + Len(sep), Len(s)), sep)

\* The text with leading and trailing blanks removed (int() ignores them).
RECURSIVE strip(_)
strip(s) ==
    IF s = <<>> THEN s
    ELSE IF Head(s) = " " THEN strip(Tail(s))
    ELSE IF s[Len(s)] = " " THEN strip(SubSeq(s, 1, Len(s) - 1))
    ELSE s

\* Whether int(tok) succeeds: optional sign, then one or more digits.
IsIntLiteral(tok) ==
    LET t == strip(tok)
        body == IF t # <<>> /\ Head(t) \in {"+", "-"} THEN Tail(t) ELSE t
    IN body # <<>> /\ \A i \in DOMAIN body : IsDigit(body[i])

RECURSIVE DecimalValue(_)
DecimalValue(ds) ==
    IF ds = <<>> THEN 0
    ELSE 10 * DecimalValue(SubSeq(ds, 1, Len(ds) - 1)) + DigitValue(ds[Len(ds)])

\* int(tok) where it succeeds.
int(tok) ==
    LET t == strip(tok)
    IN IF Head(t) = "-" THEN 0 - DecimalValue(Tail(t))
       ELSE IF Head(t) = "+" THEN DecimalValue(Tail(t))
       ELSE DecimalValue(t)

\* ------------------------------------------------------------ goal table
GoalColumns ==
    <<"goal1", "goal2", "goal3", "goal4", "goal5", "goal6", "goal7", "goal8",
      "goal9", "goal10", "goal11", "goal12", "goal13", "goal14", "goal15",
      "goal16", "goal17">>

goal_labels ==
    [g \in Range(GoalColumns) |->
        CASE g = "goal1" -> "G1: No Poverty"
          [] g = "goal2" -> "G2: Zero Hunger"
          [] g = "goal3" -> "G3: Good Health"
          [] g = "goal4" -> "G4: Quality Education"
          [] g = "goal5" -> "G5: Gender Equality"
          [] g = "goal6" -> "G6: Clean Water"
          [] g = "goal7" -> "G7: Clean Energy"
          [] g = "goal8" -> "G8: Work & Economy"
          [] g = "goal9" -> "G9: Innovation & Infrastructure"
          [] g = "goal10" -> "G10: Reduced Inequalities"
          [] g = "goal11" -> "G11: Sustainable Cities"
          [] g = "goal12" -> "G12: Responsible Consumption"
          [] g = "goal13" -> "G13: Climate Action"
          [] g = "goal14" -> "G14: Life Below Water"
          [] g = "goal15" -> "G15: Life on Land"
          [] g = "goal16" -> "G16: Peace & Justice"
          [] g = "goal17" -> "G17: Partnerships"]

\* list(goal_labels.values()), in the dictionary's order.
goal_label_list == [i \in DOMAIN GoalColumns |-> goal_labels[GoalColumns[i]]]

label_to_goal ==
    [l \in Range(goal_labels) |->
        CHOOSE g \in DOMAIN goal_labels : goal_labels[g] = l]

\* ------------------------------------------------------------ data frames
Frame(cols, rows) == [columns |-> cols, rows |-> rows]

\* A name the script has not bound (yet): no columns at all.
Undefined == Frame(<<>>, <<>>)

Column(df, col) == [i \in DOMAIN df.rows |-> df.rows[i][col]]

KeywordColumns == <<"article_number", "publication_year">> \o GoalColumns

FacultyColumns == <<"department", "article_number">>

\* ------------------------------------------------------------ merge_data
\* split_explode without the explode: each row keeps only the first token
\* of its cell.
split_first(faculty) ==
    Frame(faculty.columns,
          [i \in DOMAIN faculty.rows |->
              LET r == faculty.rows[i]
                  cell == r["article_number"]
              IN IF isna(cell) THEN r
                 ELSE [r EXCEPT !["article_number"] =
                          str_split(cell, <<",", " ">>)[1]]])

\* faculty_data["article_number"].str.split(", ") followed by
\* explode("article_number"): one row per token of the cell, in order; a
\* missing cell stays missing and gives one row.  (str.split never returns
\* an empty list, so explode's empty-list case does not arise.)
split_explode(faculty) ==
    Frame(faculty.columns,
          Flatten([i \in DOMAIN faculty.rows |->
              LET r == faculty.rows[i]
                  cell == r["article_number"]
                  tokens == str_split(cell, <<",", " ">>)
              IN IF isna(cell) THEN <<r>>
                 ELSE [k \in DOMAIN tokens |->
                          [r EXCEPT !["article_number"] = tokens[k]]]]))

\* DataFrame.dropna(): the rows with no missing cell in any column.
dropna(df) ==
    Frame(df.columns,
          SelectSeq(df.rows, LAMBDA r : \A c \in DOMAIN r : ~isna(r[c])))

\* Whether astype(int) raises ValueError: some token is no integer literal.
astype_int_raises(df) ==
    \E i \in DOMAIN df.rows : ~IsIntLiteral(df.rows[i]["article_number"])

astype_int(df) ==
    Frame(df.columns,
          [i \in DOMAIN df.rows |->
              [df.rows[i] EXCEPT !["article_number"] = int(@)]])

faculty_exploded(faculty) == dropna(split_explode(faculty))

\* pd.merge(left, right, on="article_number", how="left"): every left row,
\* in order, once per right row of the same key (in the right's order), or
\* once with the right's columns missing when there is none.
merge_left(left, right) ==
    LET extra == SelectSeq(right.columns, LAMBDA c : c # "article_number")
        with(l, r) == [c \in Range(left.columns) \cup Range(extra) |->
                          IF c \in Range(left.columns) THEN l[c] ELSE r[c]]
        unmatched(l) == [c \in Range(left.columns) \cup Range(extra) |->
                            IF c \in Range(left.columns) THEN l[c] ELSE NaN]
        matches(l) == SelectSeq(right.rows,
                         LAMBDA r : r["article_number"] = l["article_number"])
    IN Frame(left.columns \o extra,
             Flatten([i \in DOMAIN left.rows |->
                 LET l == left.rows[i]
                     m == matches(l)
                 IN IF m = <<>> THEN <<unmatched(l)>>
                    ELSE [k \in DOMAIN m |-> with(l, m[k])]]))

merge_raises(keywords, faculty) == astype_int_raises(faculty_exploded(faculty))

merge_data(keywords, faculty) ==
    merge_left(keywords, astype_int(faculty_exploded(faculty)))

\* ----------------------------------------------------------- the filter
\* filter_rows with the year range's upper end left out.
filter_rows_open(merged, departments, yrs) ==
    Frame(merged.columns,
          SelectSeq(merged.rows,
              LAMBDA r : /\ r["department"] \in departments
                         /\ yrs[1] <= r["publication_year"]
                         /\ r["publication_year"] < yrs[2]))

\* merged_data[department.isin(selected_departments)
\*             & publication_year.between(years[0], years[1])]
\* isin matches a missing department against a missing value in the list;
\* between is inclusive at both ends.
filter_rows(merged, departments, yrs) ==
    Frame(merged.columns,
          SelectSeq(merged.rows,
              LAMBDA r : /\ r["department"] \in departments
                         /\ yrs[1] <= r["publication_year"]
                         /\ r["publication_year"] <= yrs[2]))

\* merged_data["department"].unique().tolist()
all_departments(merged) == unique(Column(merged, "department"))

min_year(merged) ==
    CHOOSE y \in Range(Column(merged, "publication_year")) :
        \A z \in Range(Column(merged, "publication_year")) : y <= z

max_year(merged) ==
    CHOOSE y \in Range(Column(merged, "publication_year")) :
        \A z \in Range(Column(merged, "publication_year")) : y >= z

\* The multiselect's labels, in the order of its options, and the goal
\* columns they stand for.
selected_labels_list(labels) ==
    SelectSeq(goal_label_list, LAMBDA l : l \in labels)

selected_goal_columns(labels) ==
    LET selected_goals_labels == selected_labels_list(labels)
    IN [i \in DOMAIN selected_goals_labels |->
           label_to_goal[selected_goals_labels[i]]]

\* ------------------------------------------------------ frame operations
\* Characters in code-point order, for the sort of group keys.
CodeOrder ==
    <<" ", "0", "1", "2", "3", "4", "5", "6", "7", "8", "9",
      "A", "B", "C", "D", "E", "F", "G", "H", "I", "J", "K", "L", "M",
      "N", "O", "P", "Q", "R", "S", "T", "U", "V", "W", "X", "Y", "Z">>

CodePoint(c) == CHOOSE i \in DOMAIN CodeOrder : CodeOrder[i] = c

\* a < b for two texts, as Python compares strings.
text_less(a, b) ==
    \E k \in 1..(Len(b)) :
        /\ \A j \in 1..(k - 1) : j <= Len(a) /\ a[j] = b[j]
        /\ \/ k > Len(a)
           \/ k <= Len(a) /\ CodePoint(a[k]) < CodePoint(b[k])

\* The goal labels in sorted (string) order: "G10: ..." sorts before
\* "G1: ...", since "0" < ":".
SortedLabels ==
    [i \in 1..17 |-> goal_labels[GoalColumns[
        IF i <= 8 THEN i + 9 ELSE i - 8]]]

LabelRank ==
    [l \in Range(SortedLabels) |->
        CHOOSE i \in DOMAIN SortedLabels : SortedLabels[i] = l]

\* groupby("publication_year"): the distinct years, ascending.
year_keys(df) ==
    LET ys == unique(Column(df, "publication_year"))
    IN sort_by_rank(ys, ys)

\* groupby("department"): the distinct departments, ascending; groupby
\* (dropna=True by default) leaves the missing department out.
department_keys(df) ==
    LET ds == SelectSeq(unique(Column(df, "department")),
                        LAMBDA d : ~isna(d))
    IN sort_by_rank(ds, [i \in DOMAIN ds |->
           Cardinality({w \in Range(ds) : text_less(w, ds[i])})])

\* df.groupby(key)[goals].sum().reset_index(), keys being the group keys.
groupby_sum(df, key, keys, goals) ==
    Frame(<<key>> \o goals,
          [i \in DOMAIN keys |->
              LET grp == SelectSeq(df.rows, LAMBDA r : r[key] = keys[i])
              IN [c \in {key} \cup Range(goals) |->
                     IF c = key THEN keys[i]
                     ELSE SumSeq([k \in DOMAIN grp |-> grp[k][c]])]])

\* pd.melt / DataFrame.melt: for each value column in turn, every row's
\* id cells, the value column's name and its cell.
melt(df, id_vars, value_vars, var_name, value_name) ==
    Frame(id_vars \o <<var_name, value_name>>,
          Flatten([j \in DOMAIN value_vars |->
              [i \in DOMAIN df.rows |->
                  [c \in Range(id_vars) \cup {var_name, value_name} |->
                      IF c = var_name THEN value_vars[j]
                      ELSE IF c = value_name THEN df.rows[i][value_vars[j]]
                      ELSE df.rows[i][c]]]]))

\* df["Goal"] = df["Goal"].map(goal_labels)
map_goal_labels(df) ==
    Frame(df.columns,
          [i \in DOMAIN df.rows |->
              [df.rows[i] EXCEPT !["Goal"] = goal_labels[@]]])

\* a / b for two integer cells: a float, kept as a fraction in lowest
\* terms; 0 / 0 is NaN and n / 0 is infinite (no exception is raised).
Inf == <<"inf">>

\* divide with a zero divisor answered by zero.
divide_or_zero(a, b) ==
    IF b = 0 THEN <<0, 1>>
    ELSE <<a \div GCD(a, b), b \div GCD(a, b)>>

divide(a, b) ==
    IF b = 0 THEN (IF a = 0 THEN NaN ELSE Inf)
    ELSE <<a \div GCD(a, b), b \div GCD(a, b)>>

\* goal_distribution counting the rows that match a goal instead of
\* summing the goal's column.
goal_distribution_of_matches(filtered, goals) ==
    Frame(<<"Goal", "Total">>,
          [i \in DOMAIN goals |->
              [Goal |-> goal_labels[goals[i]],
               Total |-> Len(SelectSeq(filtered.rows,
                                       LAMBDA r : r[goals[i]] > 0))]])

\* --------------------------------------------------------------- the tabs
\* Tab 1: filtered_data[selected_goals].sum().reset_index(), labelled.
goal_distribution(filtered, goals) ==
    Frame(<<"Goal", "Total">>,
          [i \in DOMAIN goals |->
              [Goal |-> goal_labels[goals[i]],
               Total |-> SumSeq(Column(filtered, goals[i]))]])

\* Tab 2: per-year sums of the selected goals, melted.
goal_year_data_melted(filtered, goals) ==
    map_goal_labels(
        melt(groupby_sum(filtered, "publication_year", year_keys(filtered),
                         goals),
             <<"publication_year">>, goals, "Goal", "Keyword Matches"))

\* Tabs 3, 5, 6: filtered_data.groupby("department")[selected_goals].sum()
dept_goal_total(filtered, goals) ==
    groupby_sum(filtered, "department", department_keys(filtered), goals)

\* Tab 3: per-department sums of the selected goals, melted.
dept_goal_focus_melted(filtered, goals) ==
    map_goal_labels(
        melt(dept_goal_total(filtered, goals),
             <<"department">>, goals, "Goal", "Keyword Matches"))

\* Tab 4: filtered_data["department"].value_counts().reset_index(): rows
\* per department, most frequent first; value_counts (dropna=True by
\* default) leaves the missing department out.
dept_article_distribution(filtered) ==
    LET ds == SelectSeq(unique(Column(filtered, "department")),
                        LAMBDA d : ~isna(d))
        count(d) == Len(SelectSeq(filtered.rows,
                                  LAMBDA r : r["department"] = d))
        sorted == sort_by_rank(ds, [i \in DOMAIN ds |-> 0 - count(ds[i])])
    IN Frame(<<"Department", "Total Articles">>,
             [i \in DOMAIN sorted |->
                 ("Department" :> sorted[i])
                     @@ ("Total Articles" :> count(sorted[i]))])

\* Tab 5: for each selected label, the departments' totals for that goal,
\* ascending by total.
top_departments(filtered, goals) ==
    LET melted == map_goal_labels(
                      melt(dept_goal_total(filtered, goals),
                           <<"department">>, goals, "Goal", "Total"))
    IN [i \in DOMAIN goals |->
           LET goal_data == SelectSeq(melted.rows,
                   LAMBDA r : r["Goal"] = goal_labels[goals[i]])
           IN Frame(melted.columns,
                    sort_by_rank(goal_data,
                        [k \in DOMAIN goal_data |-> goal_data[k]["Total"]]))]

\* Tab 6: dept_goal_total with its row total over the selected goals.
dept_goal_total_with_total(filtered, goals) ==
    LET t == dept_goal_total(filtered, goals)
    IN Frame(t.columns \o <<"Total">>,
             [i \in DOMAIN t.rows |->
                 t.rows[i] @@ ("Total" :>
                     SumSeq([k \in DOMAIN goals |-> t.rows[i][goals[k]]]))])

\* Tab 6: the melted table with Proportion = Keyword Matches / Total.
dept_goal_melted(filtered, goals) ==
    LET m == map_goal_labels(
                 melt(dept_goal_total_with_total(filtered, goals),
                      <<"department", "Total">>, goals,
                      "Goal", "Keyword Matches"))
    IN Frame(m.columns \o <<"Proportion">>,
             [i \in DOMAIN m.rows |->
                 m.rows[i] @@ ("Proportion" :>
                     divide(m.rows[i]["Keyword Matches"],
                            m.rows[i]["Total"]))])

\* Tab 6, pie chart: the melted row of the selectbox's department, the
\* selectbox being left at its first option.
dept_data_melted(filtered, goals) ==
    LET t == dept_goal_total_with_total(filtered, goals)
        options == unique(Column(t, "department"))
        dept_data == SelectSeq(t.rows,
            LAMBDA r : options # <<>> /\ r["department"] = options[1])
    IN map_goal_labels(
           melt(Frame(t.columns, dept_data), <<"department", "Total">>,
                goals, "Goal", "Keyword Matches"))

\* Tab 7: the per-year sums of the selectbox's department, melted.  The
\* selectbox is left at its first option; filtered_data["department"] ==
\* selected_dept is false in every row when that option is the missing
\* department (NaN == NaN is false) or when there is no option.
dept_goal_year_melted(filtered, goals) ==
    LET departments == unique(Column(filtered, "department"))
        dept_data == Frame(filtered.columns,
            SelectSeq(filtered.rows,
                LAMBDA r : /\ departments # <<>>
                           /\ ~isna(departments[1])
                           /\ r["department"] = departments[1]))
    IN map_goal_labels(
           melt(groupby_sum(dept_data, "publication_year",
                            year_keys(dept_data), goals),
                <<"publication_year">>, goals, "Goal", "Keyword Matches"))

\* f"{goal}_bool"
bool_col(goal) == goal \o "_bool"

\* The goal column a boolean column's name is derived from (the name with
\* "_bool" removed).
bool_to_goal ==
    [c \in {bool_col(g) : g \in Range(GoalColumns)} |->
        CHOOSE g \in Range(GoalColumns) : bool_col(g) = c]

goal_bool_cols(goals) == [i \in DOMAIN goals |-> bool_col(goals[i])]

\* Tabs 8 and 9: for goal in selected_goals:
\*                    filtered_data[f"{goal}_bool"] = filtered_data[goal] > 0
\* The assignment writes into filtered_data itself: a new column is
\* appended, an existing one overwritten.
add_bool_columns(filtered, goals) ==
    LET assigned == goal_bool_cols(goals)
        new == SelectSeq(assigned,
                         LAMBDA c : c \notin Range(filtered.columns))
        cols == Range(filtered.columns) \cup Range(new)
    IN Frame(filtered.columns \o new,
             [i \in DOMAIN filtered.rows |->
                 [c \in cols |->
                     IF c \in Range(assigned)
                     THEN filtered.rows[i][bool_to_goal[c]] > 0
                     ELSE filtered.rows[i][c]]])

\* melted["Goal"].str.replace("_bool", "") then .map(goal_labels), and
\* melted[melted["Has_Match"] == True]; with_bools is filtered_data after
\* add_bool_columns.
melted_matches(with_bools, id_vars, goals) ==
    LET m == melt(with_bools, id_vars, goal_bool_cols(goals),
                  "Goal", "Has_Match")
    IN Frame(m.columns,
             SelectSeq([i \in DOMAIN m.rows |->
                           [m.rows[i] EXCEPT
                               !["Goal"] = goal_labels[bool_to_goal[@]]]],
                       LAMBDA r : r["Has_Match"] = TRUE))

\* Tab 8: melted.groupby(["publication_year", "Goal"]).size()
bubble_data(with_bools, goals) ==
    LET m == melted_matches(with_bools, <<"publication_year">>, goals)
        pairs == unique([i \in DOMAIN m.rows |->
                     <<m.rows[i]["publication_year"], m.rows[i]["Goal"]>>])
        keys == sort_by_rank(pairs, [i \in DOMAIN pairs |->
                     pairs[i][1] * 100 + LabelRank[pairs[i][2]]])
    IN Frame(<<"publication_year", "Goal", "Num_Articles">>,
             [i \in DOMAIN keys |->
                 [publication_year |-> keys[i][1],
                  Goal |-> keys[i][2],
                  Num_Articles |-> Len(SelectSeq(m.rows,
                      LAMBDA r : /\ r["publication_year"] = keys[i][1]
                                 /\ r["Goal"] = keys[i][2]))]])

\* Tab 9: melted.groupby(["department", "Goal"]).size(); groupby leaves
\* the missing department out.
treemap_data(with_bools, goals) ==
    LET m == melted_matches(with_bools, <<"article_number", "department">>,
                            goals)
        ds == department_keys(with_bools)
        present(d, l) == \E i \in DOMAIN m.rows :
                             m.rows[i]["department"] = d /\ m.rows[i]["Goal"] = l
        keys == Flatten([i \in DOMAIN ds |->
                    SelectSeq([k \in DOMAIN SortedLabels |->
                                  <<ds[i], SortedLabels[k]>>],
                              LAMBDA p : present(p[1], p[2]))])
    IN Frame(<<"department", "Goal", "Num_Articles">>,
             [i \in DOMAIN keys |->
                 [department |-> keys[i][1],
                  Goal |-> keys[i][2],
                  Num_Articles |-> Len(SelectSeq(m.rows,
                      LAMBDA r : /\ r["department"] = keys[i][1]
                                 /\ r["Goal"] = keys[i][2]))]])

\* filtered_data.to_csv(index=False): the header, then every row's cells
\* in column order as text; a missing cell is written empty.
to_csv(df) ==
    LET text(c, v) ==
            IF c = "department" THEN (IF isna(v) THEN <<>> ELSE v)
            ELSE IF c \in Range(KeywordColumns) THEN str(v)
            ELSE IF v THEN <<"T", "r", "u", "e">>
            ELSE <<"F", "a", "l", "s", "e">>
    IN [header |-> df.columns,
        lines |-> [i \in DOMAIN df.rows |->
                      [k \in DOMAIN df.columns |->
                          text(df.columns[k], df.rows[i][df.columns[k]])]]]

\* ------------------------------------------------------------------ state
VARIABLES
    keywords_data,   \* keywords.tsv as read
    faculty_data,    \* faculty.tsv as read
    merged_data,     \* merge_data's result in the last run
    session_state,   \* st.session_state: key -> selection (a set)
    years,           \* the slider's value <<low, high>>, <<>> before it is drawn
    status,          \* "pending" | "crashed" | "stopped" | "done"
    event,           \* the widget event a pending run answers, else "none"
    error,           \* whether st.error's message is shown
    filtered_data,   \* the script's filtered_data when the run ended
    views,           \* the tables the nine tabs computed in the run
    csv              \* the download button's data

vars == <<keywords_data, faculty_data, merged_data, session_state, years,
          status, event, error, filtered_data, views, csv>>

\* Nothing computed: the state of a run's names before the script binds
\* them.
NoViews ==
    [goal_distribution |-> Undefined,
     goal_year_data_melted |-> Undefined,
     dept_goal_focus_melted |-> Undefined,
     dept_article_distribution |-> Undefined,
     top_departments |-> <<>>,
     dept_goal_melted |-> Undefined,
     dept_data_melted |-> Undefined,
     dept_goal_year_melted |-> Undefined,
     bubble_data |-> Undefined,
     treemap_data |-> Undefined]

NoCsv == [header |-> <<>>, lines |-> <<>>]

\* The nine tabs, run in order: tabs 1 to 7 on the filtered table, tab 8
\* on the table after its column assignments, tab 9 on the table after it
\* has made the same assignments again.
compute_views(filtered, tab8_data, tab9_data, goals) ==
    [goal_distribution |-> goal_distribution(filtered, goals),
     goal_year_data_melted |-> goal_year_data_melted(filtered, goals),
     dept_goal_focus_melted |-> dept_goal_focus_melted(filtered, goals),
     dept_article_distribution |-> dept_article_distribution(filtered),
     top_departments |-> top_departments(filtered, goals),
     dept_goal_melted |-> dept_goal_melted(filtered, goals),
     dept_data_melted |-> dept_data_melted(filtered, goals),
     dept_goal_year_melted |-> dept_goal_year_melted(filtered, goals),
     bubble_data |-> bubble_data(tab8_data, goals),
     treemap_data |-> treemap_data(tab9_data, goals)]

\* if "selected_departments" not in st.session_state: ... and the same
\* for "selected_goals": a key already present is left alone.
init_session_state(ss, merged) ==
    [k \in {"selected_departments", "selected_goals"} |->
        IF k \in DOMAIN ss THEN ss[k]
        ELSE IF k = "selected_departments"
             THEN Range(all_departments(merged))
             ELSE Range(goal_label_list)]

\* The script without its guard.
no_guard(goals) == FALSE

\* if not selected_goals: st.error(...); st.stop()
no_goal_selected(goals) == goals = <<>>

\* One run of the script, top to bottom, from the widgets' state.
Rerun ==
    /\ status = "pending"
    /\ UNCHANGED <<keywords_data, faculty_data>>
    /\ event' = "none"
    /\ IF merge_raises(keywords_data, faculty_data) \/ keywords_data.rows = <<>>
       THEN /\ status' = "crashed"
            /\ UNCHANGED <<merged_data, session_state, years, error,
                           filtered_data, views, csv>>
       ELSE LET md == merge_data(keywords_data, faculty_data)
                ss == init_session_state(session_state, md)
                yrs == IF years = <<>> THEN <<min_year(md), max_year(md)>>
                       ELSE years
                goals == selected_goal_columns(ss["selected_goals"])
                fd == filter_rows(md, ss["selected_departments"], yrs)
                tab8_data == add_bool_columns(fd, goals)
                tab9_data == add_bool_columns(tab8_data, goals)
            IN /\ merged_data' = md
               /\ session_state' = ss
               /\ years' = yrs
               /\ IF no_goal_selected(goals)
                  THEN /\ error' = TRUE
                       /\ status' = "stopped"
                       /\ filtered_data' = fd
                       /\ views' = NoViews
                       /\ csv' = NoCsv
                  ELSE /\ error' = FALSE
                       /\ status' = "done"
                       /\ views' = compute_views(fd, tab8_data, tab9_data,
                                                 goals)
                       /\ filtered_data' = tab9_data
                       /\ csv' = to_csv(tab9_data)

\* ------------------------------------------------------------ UI events
\* The sidebar is drawn before the guard, so its widgets answer after a
\* run that ended normally or was stopped by the guard.
Interactive == status \in {"done", "stopped"}

\* A widget event: the new widget state, and a fresh run pending (a run
\* starts with none of the script's names bound).
StartRun(ev, ss, yrs) ==
    /\ event' = ev
    /\ session_state' = ss
    /\ years' = yrs
    /\ status' = "pending"
    /\ error' = FALSE
    /\ filtered_data' = Undefined
    /\ views' = NoViews
    /\ csv' = NoCsv
    /\ UNCHANGED <<keywords_data, faculty_data, merged_data>>

\* select_all_departments over the departments that are not missing.
select_all_departments_dropna(ss, merged) ==
    [ss EXCEPT !["selected_departments"] = Range(department_keys(merged))]

select_all_departments(ss, merged) ==
    [ss EXCEPT !["selected_departments"] = Range(all_departments(merged))]

deselect_all_departments(ss) ==
    [ss EXCEPT !["selected_departments"] = {}]

select_all_goals(ss) ==
    [ss EXCEPT !["selected_goals"] = Range(goal_label_list)]

deselect_all_goals(ss) ==
    [ss EXCEPT !["selected_goals"] = {}]

\* A multiselect adds or removes one of its options per event.
toggle(ss, key, option) ==
    [ss EXCEPT ![key] = IF option \in @ THEN @ \ {option}
                        ELSE @ \cup {option}]

ClickSelectAllDepartments ==
    /\ Interactive
    /\ StartRun("select_all_departments",
                select_all_departments(session_state, merged_data), years)

ClickDeselectAllDepartments ==
    /\ Interactive
    /\ StartRun("deselect_all_departments",
                deselect_all_departments(session_state), years)

ChooseDepartment ==
    /\ Interactive
    /\ \E d \in Range(all_departments(merged_data)) :
           StartRun("departments_changed",
                    toggle(session_state, "selected_departments", d), years)

MoveSlider ==
    /\ Interactive
    /\ \E lo, hi \in min_year(merged_data)..max_year(merged_data) :
           /\ lo <= hi
           /\ <<lo, hi>> # years
           /\ StartRun("slider_moved", session_state, <<lo, hi>>)

ClickSelectAllGoals ==
    /\ Interactive
    /\ StartRun("select_all_goals", select_all_goals(session_state), years)

ClickDeselectAllGoals ==
    /\ Interactive
    /\ StartRun("deselect_all_goals", deselect_all_goals(session_state),
                years)

PickLabels == {goal_label_list[i] : i \in 1..NumPickGoals}

ChooseGoal ==
    /\ Interactive
    /\ \E l \in PickLabels :
           StartRun("goals_changed",
                    toggle(session_state, "selected_goals", l), years)

Next ==
    \/ Rerun
    \/ ClickSelectAllDepartments
    \/ ClickDeselectAllDepartments
    \/ ChooseDepartment
    \/ MoveSlider
    \/ ClickSelectAllGoals
    \/ ClickDeselectAllGoals
    \/ ChooseGoal

\* ------------------------------------------------------ generated inputs
Articles == 1..NumArticles

Years == FirstYear..(FirstYear + NumYears - 1)

DataGoals == {GoalColumns[i] : i \in 1..NumDataGoals}

Profiles == [DataGoals -> 0..MaxCount]

keyword_row(a, y, counts) ==
    [c \in Range(KeywordColumns) |->
        IF c = "article_number" THEN a
        ELSE IF c = "publication_year" THEN y
        ELSE IF c \in DataGoals THEN counts[c]
        ELSE 0]

\* Keyword tables: one row per article 1..NumArticles (article_number is
\* the table's key), its year among yearsOf and its counts among profiles.
KeywordTables(yearsOf, profiles) ==
    {Frame(KeywordColumns,
           [a \in Articles |-> keyword_row(a, ys[a], ps[a])]) :
        ys \in yearsOf, ps \in [Articles -> profiles]}

CS == <<"C", "S">>

EE == <<"E", "E">>

SeqsUpTo(S, n) == UNION {[1..k -> S] : k \in 0..n}

\* Article-number cells: up to maxlen tokens joined by ", ".
Cells(tokens, maxlen) ==
    {join(ts, <<",", " ">>) : ts \in SeqsUpTo(tokens, maxlen) \ {<<>>}}

\* The decimal tokens of the articles and of one article no keyword row has.
ArticleTokens == {str(a) : a \in 1..(NumArticles + 1)}

FacultyTables(departments, cells) ==
    {Frame(FacultyColumns, rows) :
        rows \in SeqsUpTo([department : departments,
                           article_number : cells], NumFaculty)}

NewSession ==
    /\ merged_data = Undefined
    /\ session_state = <<>>
    /\ years = <<>>
    /\ status = "pending"
    /\ event = "session_start"
    /\ error = FALSE
    /\ filtered_data = Undefined
    /\ views = NoViews
    /\ csv = NoCsv

\* Article a published in year FirstYear + (a - 1) mod NumYears.
SpreadYears == [a \in Articles |-> FirstYear + ((a - 1) % NumYears)]

FullProfile == [g \in DataGoals |-> MaxCount]

ZeroProfile == [g \in DataGoals |-> 0]

\* A session's start over well-formed files: every faculty cell holds one
\* article number, the articles' years vary.
Init ==
    /\ keywords_data \in KeywordTables({SpreadYears}, {FullProfile})
    /\ faculty_data \in FacultyTables({CS, EE}, Cells(ArticleTokens, 1))
    /\ NewSession

Spec == Init /\ [][Next]_vars

\* A session's start over any faculty file: cells of several tokens, a
\* token that is no number, missing cells and missing departments.
InitMerge ==
    /\ keywords_data \in KeywordTables({SpreadYears}, {ZeroProfile})
    /\ faculty_data \in FacultyTables({CS, EE, NaN},
           Cells(ArticleTokens \cup {<<"x">>}, MaxTokens) \cup {NaN})
    /\ NewSession

SpecMerge == InitMerge /\ [][Rerun]_vars

\* A run about to start in a session that has run before, over keyword
\* tables of any counts, for any department selection and any non-empty
\* selection among the first NumPickGoals labels.
InitViews ==
    /\ keywords_data \in KeywordTables({SpreadYears}, Profiles)
    /\ faculty_data \in FacultyTables({CS, EE}, Cells(ArticleTokens, 1))
    /\ merged_data = merge_data(keywords_data, faculty_data)
    /\ \E D \in SUBSET Range(all_departments(merged_data)),
          G \in (SUBSET PickLabels) \ {{}} :
           session_state = [selected_departments |-> D, selected_goals |-> G]
    /\ years = <<min_year(merged_data), max_year(merged_data)>>
    /\ status = "pending"
    /\ event = "goals_changed"
    /\ error = FALSE
    /\ filtered_data = Undefined
    /\ views = NoViews
    /\ csv = NoCsv

SpecViews == InitViews /\ [][Rerun]_vars

\* ------------------------------------------------------------- properties
selected_departments == session_state["selected_departments"]

selected_goals_labels == session_state["selected_goals"]

RunEnded == status \in {"done", "stopped"}

\* A row's cells in the given columns.
Project(r, cols) == [c \in Range(cols) |-> r[c]]

\* The rows of the filtered table, in the flat table's columns.
FilteredFlatRows ==
    [i \in DOMAIN filtered_data.rows |->
        Project(filtered_data.rows[i], merged_data.columns)]

Retained(r) ==
    /\ r["department"] \in selected_departments
    /\ years[1] <= r["publication_year"]
    /\ r["publication_year"] <= years[2]

\* C1: after any run, a flat-table row is in the filtered table iff its
\* department is selected and its publication year lies in [low, high]
\* (both ends included); the filtered table holds those rows and no
\* others, whatever the goal selection; with low = high every retained
\* row has exactly that year.
C1_FilterRetainsExactly ==
    RunEnded =>
        /\ \A i \in DOMAIN merged_data.rows :
               (merged_data.rows[i] \in Range(FilteredFlatRows))
                   <=> Retained(merged_data.rows[i])
        /\ Range(FilteredFlatRows) \subseteq Range(merged_data.rows)
        /\ Len(filtered_data.rows) =
               Cardinality({i \in DOMAIN merged_data.rows :
                               Retained(merged_data.rows[i])})
        /\ years[1] = years[2] =>
               \A i \in DOMAIN filtered_data.rows :
                   filtered_data.rows[i]["publication_year"] = years[1]

\* C1's case: a single-year range keeps one row and drops another, and a
\* row of the selected year is dropped for its department.
C1_Witness ==
    /\ status = "done"
    /\ years[1] = years[2]
    /\ filtered_data.rows # <<>>
    /\ \E i \in DOMAIN merged_data.rows :
           merged_data.rows[i]["publication_year"] # years[1]
    /\ \E i \in DOMAIN merged_data.rows :
           /\ merged_data.rows[i]["publication_year"] = years[1]
           /\ merged_data.rows[i]["department"] \notin selected_departments

\* C2: a run with an empty goal selection ends at the guard with the
\* error shown and none of the nine tabs' tables computed; tables are
\* computed only in a run whose goal selection is non-empty.
C2_EmptyGoalsBlock ==
    /\ (RunEnded /\ selected_goals_labels = {}) =>
           (status = "stopped" /\ error /\ views = NoViews)
    /\ (views # NoViews) =>
           (status = "done" /\ ~error /\ selected_goals_labels # {})
    /\ (status = "done") =>
           \A v \in {views.goal_distribution, views.goal_year_data_melted,
                      views.dept_goal_focus_melted,
                      views.dept_article_distribution,
                      views.dept_goal_melted, views.dept_data_melted,
                      views.dept_goal_year_melted, views.bubble_data,
                      views.treemap_data} : v # Undefined

\* C2's case: the run after the goals were deselected has stopped at the
\* guard.
C2_Witness ==
    /\ status = "stopped"
    /\ error
    /\ selected_goals_labels = {}
    /\ merged_data.rows # <<>>

\* C6: whatever the selection was, after "select all departments" the
\* selection is exactly the set of department values of the flat table
\* (the missing department included when a row has it), and invoking it
\* again changes nothing; after "select all goals" it is exactly the 17
\* goal labels.
C6_SelectAllIsUniverse ==
    /\ event = "select_all_departments" =>
           /\ selected_departments =
                  {merged_data.rows[i]["department"] :
                      i \in DOMAIN merged_data.rows}
           /\ select_all_departments(session_state, merged_data)
                  = session_state
    /\ event = "select_all_goals" =>
           /\ selected_goals_labels = Range(goal_labels)
           /\ Cardinality(selected_goals_labels) = 17
           /\ select_all_goals(session_state) = session_state

\* C6's case: "select all departments" has just run, after the slider was
\* moved, on a table that has a missing department and another one.
C6_Witness ==
    /\ event = "select_all_departments"
    /\ NaN \in selected_departments
    /\ Cardinality(selected_departments) >= 2
    /\ years[1] = years[2]

\* C7: after tabs 8 and 9 have run, the filtered table has the columns
\* and values the filter gave it, and the export holds the flat table's
\* columns only.
C7_FilteredTableUnmodified ==
    status = "done" =>
        /\ filtered_data =
               filter_rows(merged_data, selected_departments, years)
        /\ csv.header = merged_data.columns

\* C5: with a non-empty goal selection, tab 1's table has exactly one row
\* per selected goal, whose Total is the sum of that goal's column over
\* the rows of the filtered table (zero when it has no rows).
C5_GoalTotals ==
    status = "done" =>
        LET v == views.goal_distribution
        IN /\ Len(v.rows) = Cardinality(selected_goals_labels)
           /\ {v.rows[i].Goal : i \in DOMAIN v.rows} = selected_goals_labels
           /\ \A i \in DOMAIN v.rows :
                  v.rows[i].Total =
                      SumSeq([k \in DOMAIN filtered_data.rows |->
                          filtered_data.rows[k][label_to_goal[v.rows[i].Goal]]])

\* C5's case: a total that adds up the counts of several rows, and a
\* goal whose total differs.
C5_Witness ==
    /\ status = "done"
    /\ Len(filtered_data.rows) >= 2
    /\ \E i, j \in DOMAIN views.goal_distribution.rows :
           /\ views.goal_distribution.rows[i].Total > MaxCount
           /\ views.goal_distribution.rows[j].Total
                  # views.goal_distribution.rows[i].Total

\* C8: every (department, goal) count of the treemap table is the number
\* of distinct article numbers among the filtered rows of that department
\* whose count for that goal is positive.
C8_TreemapCountsDistinctArticles ==
    status = "done" =>
        \A i \in DOMAIN views.treemap_data.rows :
            LET t == views.treemap_data.rows[i]
            IN t.Num_Articles =
                   Cardinality({filtered_data.rows[k]["article_number"] :
                       k \in {k \in DOMAIN filtered_data.rows :
                           /\ filtered_data.rows[k]["department"] = t.department
                           /\ filtered_data.rows[k][label_to_goal[t.Goal]] > 0}})

\* The sum of a goal column over the filtered rows of a department.
DeptGoalSum(d, g) ==
    SumSeq([k \in DOMAIN filtered_data.rows |->
        IF filtered_data.rows[k]["department"] = d
        THEN filtered_data.rows[k][g] ELSE 0])

\* The sum of all selected goal columns over a department's rows.
DeptGrandTotal(d) ==
    SumSeq([k \in DOMAIN GoalColumns |->
        IF goal_labels[GoalColumns[k]] \in selected_goals_labels
        THEN DeptGoalSum(d, GoalColumns[k]) ELSE 0])

ProportionRowsSound ==
    \A i \in DOMAIN views.dept_goal_melted.rows :
        LET m == views.dept_goal_melted.rows[i]
        IN /\ m["Keyword Matches"] =
                  DeptGoalSum(m["department"], label_to_goal[m["Goal"]])
           /\ m["Total"] = DeptGrandTotal(m["department"])
           /\ m["Total"] # 0 =>
                  /\ m["Proportion"] \notin {NaN, Inf}
                  /\ m["Proportion"][1] * m["Total"]
                         = m["Keyword Matches"] * m["Proportion"][2]

\* C9 as stated: tab 6 completes, a department whose grand total over the
\* selected goals is zero has the proportion zero for every goal, and a
\* department with a non-zero total has goal_sum / grand_total.
C9_ZeroTotalProportionZero ==
    status = "done" =>
        /\ ProportionRowsSound
        /\ \A i \in DOMAIN views.dept_goal_melted.rows :
               views.dept_goal_melted.rows[i]["Total"] = 0 =>
                   views.dept_goal_melted.rows[i]["Proportion"] = <<0, 1>>

\* C9 as amended: tab 6 completes, a department whose grand total over
\* the selected goals is zero has the undefined proportion NaN (not zero)
\* for every goal, and a department with a non-zero total has
\* goal_sum / grand_total.
C9_ZeroTotalProportionNaN ==
    /\ (status = "pending" \/ RunEnded)
    /\ status = "done" =>
           /\ ProportionRowsSound
           /\ \A i \in DOMAIN views.dept_goal_melted.rows :
                  views.dept_goal_melted.rows[i]["Total"] = 0 =>
                      isna(views.dept_goal_melted.rows[i]["Proportion"])

\* C9's case: one department with a zero total beside one whose goals
\* share a non-zero total unevenly.
C9_Witness ==
    /\ status = "done"
    /\ \E i, j \in DOMAIN views.dept_goal_melted.rows :
           /\ views.dept_goal_melted.rows[i]["Total"] = 0
           /\ views.dept_goal_melted.rows[j]["Total"] # 0
           /\ views.dept_goal_melted.rows[j]["Keyword Matches"] # 0
           /\ views.dept_goal_melted.rows[j]["Keyword Matches"]
                  # views.dept_goal_melted.rows[j]["Total"]

\* C10: a row with a missing department is retained whenever the missing
\* department is selected and its year is in range, and then tabs 3, 4,
\* 5, 6 and 9 each show the missing department as a category of its own
\* that includes those rows.
C10_NullDepartmentCategory ==
    status = "done" =>
        LET nulls == {k \in DOMAIN filtered_data.rows :
                         isna(filtered_data.rows[k]["department"])}
            HasNull(rows, col) == \E i \in DOMAIN rows : isna(rows[i][col])
        IN /\ \A i \in DOMAIN merged_data.rows :
                  (isna(merged_data.rows[i]["department"])
                       /\ Retained(merged_data.rows[i]))
                  => merged_data.rows[i] \in Range(FilteredFlatRows)
           /\ nulls # {} =>
                  /\ HasNull(views.dept_goal_focus_melted.rows, "department")
                  /\ \E i \in DOMAIN views.dept_article_distribution.rows :
                         LET t == views.dept_article_distribution.rows[i]
                         IN isna(t["Department"])
                                /\ t["Total Articles"] = Cardinality(nulls)
                  /\ \A i \in DOMAIN views.top_departments :
                         HasNull(views.top_departments[i].rows, "department")
                  /\ HasNull(views.dept_goal_melted.rows, "department")
                  /\ (\E k \in nulls, g \in Range(GoalColumns) :
                          /\ goal_labels[g] \in selected_goals_labels
                          /\ filtered_data.rows[k][g] > 0)
                         => HasNull(views.treemap_data.rows, "department")

\* The tokens of faculty row i's article-number cell.
FacultyTokens(i) ==
    IF isna(faculty_data.rows[i]["article_number"]) THEN <<>>
    ELSE str_split(faculty_data.rows[i]["article_number"], <<",", " ">>)

\* The positions in faculty row i's cell that hold article number a.
TokensOf(i, a) ==
    {k \in DOMAIN FacultyTokens(i) :
        /\ IsIntLiteral(FacultyTokens(i)[k])
        /\ int(FacultyTokens(i)[k]) = a}

\* The faculty rows that list article a.
ListingRows(a) == {i \in DOMAIN faculty_data.rows : TokensOf(i, a) # {}}

\* The faculty rows with no missing field.
CompleteRows ==
    {i \in DOMAIN faculty_data.rows :
        \A c \in Range(FacultyColumns) : ~isna(faculty_data.rows[i][c])}

\* The occurrences <<row, position>> of article a in complete rows.
Occurrences(a) ==
    UNION {{<<i, k>> : k \in TokensOf(i, a)} : i \in CompleteRows}

FlatRowsOf(a) ==
    SelectSeq(merged_data.rows, LAMBDA r : r["article_number"] = a)

CountDepartment(rows, d) ==
    Len(SelectSeq(rows, LAMBDA r : r["department"] = d))

\* Every flat row is a keyword row with a department added.
KeywordRowsPreserved ==
    /\ \A k \in DOMAIN keywords_data.rows :
           /\ FlatRowsOf(keywords_data.rows[k]["article_number"]) # <<>>
           /\ \A r \in Range(FlatRowsOf(
                              keywords_data.rows[k]["article_number"])) :
                  Project(r, KeywordColumns) = keywords_data.rows[k]
    /\ \A r \in Range(merged_data.rows) :
           \E k \in DOMAIN keywords_data.rows :
               keywords_data.rows[k]["article_number"] = r["article_number"]

\* C3 as stated: the join preserves every keyword row; an article listed
\* by N >= 1 faculty rows appears exactly N times, once per listing row
\* with that row's department; an article no faculty row lists appears
\* once with a missing department; there are no other rows.
C3_JoinOncePerFacultyRow ==
    RunEnded =>
        /\ KeywordRowsPreserved
        /\ \A a \in Range(Column(keywords_data, "article_number")) :
               IF ListingRows(a) = {}
               THEN /\ Len(FlatRowsOf(a)) = 1
                    /\ isna(FlatRowsOf(a)[1]["department"])
               ELSE /\ Len(FlatRowsOf(a)) = Cardinality(ListingRows(a))
                    /\ \A i \in ListingRows(a) :
                           CountDepartment(FlatRowsOf(a),
                                           faculty_data.rows[i]["department"])
                           = Cardinality({j \in ListingRows(a) :
                                 faculty_data.rows[j]["department"]
                                     = faculty_data.rows[i]["department"]})

\* C3 as amended: when merge_data returns, the join preserves every
\* keyword row; an article appears once per occurrence of its number
\* among the tokens of the faculty rows that have no missing field (twice
\* for a row that names it twice), with that row's department; an article
\* with no such occurrence appears once with a missing department; there
\* are no other rows.
C3_JoinOncePerListedToken ==
    RunEnded =>
        /\ KeywordRowsPreserved
        /\ \A a \in Range(Column(keywords_data, "article_number")) :
               IF Occurrences(a) = {}
               THEN /\ Len(FlatRowsOf(a)) = 1
                    /\ isna(FlatRowsOf(a)[1]["department"])
               ELSE /\ Len(FlatRowsOf(a)) = Cardinality(Occurrences(a))
                    /\ \A o \in Occurrences(a) :
                           CountDepartment(FlatRowsOf(a),
                                           faculty_data.rows[o[1]]["department"])
                           = Cardinality({q \in Occurrences(a) :
                                 faculty_data.rows[q[1]]["department"]
                                     = faculty_data.rows[o[1]]["department"]})

\* C3's case: the join has run on a faculty table in which one row names
\* an article twice, a row without department lists an article, and an
\* article is listed by no complete row.
C3_Witness ==
    /\ RunEnded
    /\ \E a \in Range(Column(keywords_data, "article_number")) :
           \E o, q \in Occurrences(a) : o[1] = q[1] /\ o[2] # q[2]
    /\ \E a \in Range(Column(keywords_data, "article_number")) :
           ListingRows(a) \ CompleteRows # {}
    /\ \E a \in Range(Column(keywords_data, "article_number")) :
           /\ Occurrences(a) = {}
           /\ Len(FlatRowsOf(a)) = 1

HasMalformedToken ==
    \E i \in DOMAIN faculty_data.rows :
        \E k \in DOMAIN FacultyTokens(i) : ~IsIntLiteral(FacultyTokens(i)[k])

\* C4: when a faculty cell holds a token that is no integer, merge_data
\* still returns, and its result is the join over the remaining
\* well-formed tokens; the run never fails on the token.
C4_MalformedTokenDropped ==
    (status # "pending" /\ HasMalformedToken) =>
        /\ status # "crashed"
        /\ KeywordRowsPreserved
        /\ \A a \in Range(Column(keywords_data, "article_number")) :
               Len(FlatRowsOf(a)) =
                   IF Occurrences(a) = {} THEN 1
                   ELSE Cardinality(Occurrences(a))

====
